---- MODULE Spec2Model ----
(***************************************************************************)
(* A model of the two scrapers of dogcat-scraper.                          *)
(*                                                                         *)
(*   animal_list_scraper.py       the Listing Crawler: extract_animal_data *)
(*                                and main                                 *)
(*   adoption_profiles_scraper.py the Profile Fetcher: fetch_profile and   *)
(*                                main_async                               *)
(*                                                                         *)
(* Strings are sequences of one-character strings; an HTML attribute or    *)
(* an element that is absent is the value None.                            *)
(***************************************************************************)
EXTENDS Integers, Sequences, FiniteSets, TLC

VARIABLES
    \* ---- Profile Fetcher (adoption_profiles_scraper.py) ----
    concurrency,   \* the -n argument
    sem_value,     \* the free slots of asyncio.Semaphore(concurrency)
    holders,       \* the tasks inside `async with semaphore`
    rows_read,     \* rows of the CSV consumed by the reader loop
    counters,      \* counters: links, success, fail, missing_info
    results,       \* the shared results list
    tasks,         \* the created fetch_profile tasks, in creation order
    main_pc,       \* position of main_async
    json_out,      \* what json.dump wrote
    \* ---- Listing Crawler (animal_list_scraper.py) ----
    current_url,   \* the cursor of the while loop (0 is None)
    animal_data,   \* the dict keyed by link, as its items in insertion order
    fetched,       \* the number of session.get calls made so far
    next_sel,      \* the a.next anchors of the page last searched for "Next"
    cards_done,    \* cards of the current page already handled
    card,          \* the locals pet_id, link, name, sex, age, photo_url
    raw,           \* the onclick attribute and <p> text the locals came from
    crawl_pc,      \* position of extract_animal_data and main
    error,         \* "none", or the except clause that ended the loop
    data,          \* what extract_animal_data returned
    csv_out,       \* the data rows written to the CSV
    wrote,         \* "none", "ok" or "ioerror": the outcome of the CSV step
    \* ---- the "sex, age" text split on its own ----
    p_text,        \* text of a card's <p>
    parsed         \* <<>> before the split, then <<sex, age>>

fetchVars == <<concurrency, sem_value, holders, rows_read, counters, results,
               tasks, main_pc, json_out>>
crawlVars == <<current_url, animal_data, fetched, next_sel, cards_done, card,
               raw, crawl_pc, error, data, csv_out, wrote>>
splitVars == <<p_text, parsed>>
vars == <<fetchVars, crawlVars, splitVars>>

None == <<"None">>

\* Python truthiness of an optional string: None and "" are falsy.
Truthy(v) == v /= None /\ v /= <<>>

----------------------------------------------------------------------------
(* Bounds of the model.                                                    *)

MaxRows == 3
MaxConcurrency == 2
MaxPages == 3
MaxCards == 2
MaxText == 4

----------------------------------------------------------------------------
(* Profile Fetcher                                                         *)

\* A CSV row: row i carries pet_id <<i>> and link <<i>>, or an empty cell.
RowCells(i) == {<<>>, <<i>>}

\* The HTML bodies a 200 response can carry: the set of marker classes found.
Htmls == {{"body"}, {"body", "adoptionProfilePage"}}

NoInfo == "None"

\* extract_adoption_profile without the test of the detail container.
extract_without_container_test(html) == "info"

\* extract_adoption_profile: None when the detail container is absent.
extract_adoption_profile(html) ==
    IF "adoptionProfilePage" \notin html THEN NoInfo ELSE "info"

NewTask(pet_id, link) ==
    [pet_id |-> pet_id, link |-> link, pc |-> "gate",
     status |-> -1, html |-> {}, raised |-> FALSE, incs |-> <<>>]

Tasks == 1..Len(tasks)

\* The increment as a read before a suspension and a write after it: the
\* value written is the one read at the start, 0, plus one.
IncrStale(name) == [counters EXCEPT ![name] = 1]

Incr(name) == [counters EXCEPT ![name] = @ + 1]

\* Task t's own record of a counter it incremented.
Counted(t, name) == [tasks EXCEPT ![t].incs = Append(@, name)]

FetchInit ==
    /\ concurrency \in 0..MaxConcurrency
    /\ sem_value = concurrency
    /\ holders = {}
    /\ rows_read = 0
    /\ counters = [links |-> 0, success |-> 0, fail |-> 0, missing_info |-> 0]
    /\ results = <<>>
    /\ tasks = <<>>
    /\ main_pc = "read"
    /\ json_out = [status |-> "unwritten", rows |-> <<>>]

\* main_async, one turn of `for row in reader`.
ReadRow ==
    /\ main_pc = "read"
    /\ rows_read < MaxRows
    /\ \E pet_id \in RowCells(rows_read + 1), link \in RowCells(rows_read + 1) :
         /\ rows_read' = rows_read + 1
         /\ IF pet_id = <<>> \/ link = <<>>
            THEN UNCHANGED <<counters, tasks>>
            ELSE /\ counters' = Incr("links")
                 /\ tasks' = Append(tasks, NewTask(pet_id, link))
    /\ UNCHANGED <<concurrency, sem_value, holders, results, main_pc, json_out>>
    /\ UNCHANGED <<crawlVars, splitVars>>

\* main_async: the reader is exhausted, main awaits asyncio.gather(*tasks).
EndOfCsv ==
    /\ main_pc = "read"
    /\ main_pc' = "gather"
    /\ UNCHANGED <<concurrency, sem_value, holders, rows_read, counters,
                   results, tasks, json_out>>
    /\ UNCHANGED <<crawlVars, splitVars>>

\* fetch_profile with a gate that admits without looking at its free slots.
AcquireUnguarded(t) ==
    /\ main_pc = "gather"
    /\ tasks[t].pc = "gate"
    /\ sem_value' = sem_value - 1
    /\ holders' = holders \cup {t}
    /\ tasks' = [tasks EXCEPT ![t].pc = "awaiting_response"]
    /\ UNCHANGED <<concurrency, rows_read, counters, results, main_pc, json_out>>
    /\ UNCHANGED <<crawlVars, splitVars>>

\* fetch_profile: `async with semaphore` admits the task, which runs on to
\* session.get(url) and suspends with its request in flight.
Acquire(t) ==
    /\ main_pc = "gather"
    /\ tasks[t].pc = "gate"
    /\ sem_value > 0
    /\ sem_value' = sem_value - 1
    /\ holders' = holders \cup {t}
    /\ tasks' = [tasks EXCEPT ![t].pc = "awaiting_response"]
    /\ UNCHANGED <<concurrency, rows_read, counters, results, main_pc, json_out>>
    /\ UNCHANGED <<crawlVars, splitVars>>

\* What session.get can come back with: it raises (status 0) or answers.
GetOutcomes == {0, 200, 404, 500}

\* fetch_profile: the response head arrives, or session.get raises.
Response(t) ==
    /\ tasks[t].pc = "awaiting_response"
    /\ \E status \in GetOutcomes :
         IF status = 200
         THEN /\ tasks' = [tasks EXCEPT ![t].pc = "awaiting_body", ![t].status = status]
              /\ UNCHANGED counters
         ELSE \* a non-200 status (else branch) or an exception (except clause)
              /\ counters' = Incr("fail")
              /\ tasks' = [Counted(t, "fail") EXCEPT ![t].pc = "exit", ![t].status = status,
                                                      ![t].raised = (status = 0)]
    /\ UNCHANGED <<concurrency, sem_value, holders, rows_read, results, main_pc, json_out>>
    /\ UNCHANGED <<crawlVars, splitVars>>

\* What `await resp.text()` and the extraction can come to: the body is read
\* and parsed, or one of the two raises.
BodyOutcomes == {[raised |-> r, html |-> h] : r \in BOOLEAN, h \in Htmls}

\* fetch_profile with the gate closed around `await resp.text()` alone: the
\* slot is given back before the extraction and the counter update.
BodyAfterRelease(t) ==
    /\ tasks[t].pc = "awaiting_body"
    /\ \E b \in BodyOutcomes :
         LET seen == [tasks EXCEPT ![t].html = b.html, ![t].raised = b.raised] IN
         IF b.raised
         THEN /\ counters' = [counters EXCEPT !["fail"] = @ + 1]
              /\ tasks' = [seen EXCEPT ![t].pc = "done", ![t].incs = Append(@, "fail")]
              /\ UNCHANGED results
         ELSE IF "adoptionProfilePage" \in b.html
         THEN /\ results' = Append(results,
                                   [pet_id |-> tasks[t].pet_id, link |-> tasks[t].link])
              /\ counters' = [counters EXCEPT !["success"] = @ + 1]
              /\ tasks' = [seen EXCEPT ![t].pc = "done", ![t].incs = Append(@, "success")]
         ELSE /\ counters' = [counters EXCEPT !["missing_info"] = @ + 1]
              /\ tasks' = [seen EXCEPT ![t].pc = "done", ![t].incs = Append(@, "missing_info")]
              /\ UNCHANGED results
    /\ sem_value' = sem_value + 1
    /\ holders' = holders \ {t}
    /\ UNCHANGED <<concurrency, rows_read, main_pc, json_out>>
    /\ UNCHANGED <<crawlVars, splitVars>>

\* fetch_profile: the body arrives; extraction, the append and the counter
\* update follow with no suspension in between.
Body(t) ==
    /\ tasks[t].pc = "awaiting_body"
    /\ \E b \in BodyOutcomes :
         LET seen == [tasks EXCEPT ![t].html = b.html, ![t].raised = b.raised] IN
         IF b.raised
         THEN /\ counters' = Incr("fail")
              /\ tasks' = [seen EXCEPT ![t].pc = "exit", ![t].incs = Append(@, "fail")]
              /\ UNCHANGED results
         ELSE IF extract_adoption_profile(b.html) /= NoInfo
         THEN /\ results' = Append(results,
                                   [pet_id |-> tasks[t].pet_id, link |-> tasks[t].link])
              /\ counters' = Incr("success")
              /\ tasks' = [seen EXCEPT ![t].pc = "exit", ![t].incs = Append(@, "success")]
         ELSE /\ counters' = Incr("missing_info")
              /\ tasks' = [seen EXCEPT ![t].pc = "exit", ![t].incs = Append(@, "missing_info")]
              /\ UNCHANGED results
    /\ UNCHANGED <<concurrency, sem_value, holders, rows_read, main_pc, json_out>>
    /\ UNCHANGED <<crawlVars, splitVars>>

\* fetch_profile: the task leaves `async with semaphore` and ends.
Release(t) ==
    /\ tasks[t].pc = "exit"
    /\ sem_value' = sem_value + 1
    /\ holders' = holders \ {t}
    /\ tasks' = [tasks EXCEPT ![t].pc = "done"]
    /\ UNCHANGED <<concurrency, rows_read, counters, results, main_pc, json_out>>
    /\ UNCHANGED <<crawlVars, splitVars>>

\* asyncio.gather replaced by a wait that returns on the first task to end.
GatherFirstCompleted ==
    /\ main_pc = "gather"
    /\ \E t \in Tasks : tasks[t].pc = "done"
    /\ main_pc' = "write"
    /\ UNCHANGED <<concurrency, sem_value, holders, rows_read, counters,
                   results, tasks, json_out>>
    /\ UNCHANGED <<crawlVars, splitVars>>

\* main_async: asyncio.gather returns once every task has ended.
GatherDone ==
    /\ main_pc = "gather"
    /\ \A t \in Tasks : tasks[t].pc = "done"
    /\ main_pc' = "write"
    /\ UNCHANGED <<concurrency, sem_value, holders, rows_read, counters,
                   results, tasks, json_out>>
    /\ UNCHANGED <<crawlVars, splitVars>>

\* main_async: json.dump(results), or the IOError that is logged.
WriteJson ==
    /\ main_pc = "write"
    /\ \E ok \in BOOLEAN :
         json_out' = IF ok THEN [status |-> "ok", rows |-> results]
                           ELSE [status |-> "ioerror", rows |-> <<>>]
    /\ main_pc' = "done"
    /\ UNCHANGED <<concurrency, sem_value, holders, rows_read, counters,
                   results, tasks>>
    /\ UNCHANGED <<crawlVars, splitVars>>

----------------------------------------------------------------------------
(* Listing Crawler: the text helpers                                       *)

\* str.strip(): leading and trailing blanks removed.
RECURSIVE LStrip(_)
LStrip(s) == IF s /= <<>> /\ Head(s) = " " THEN LStrip(Tail(s)) ELSE s

RECURSIVE RStrip(_)
RStrip(s) ==
    IF s /= <<>> /\ s[Len(s)] = " " THEN RStrip(SubSeq(s, 1, Len(s) - 1)) ELSE s

Strip(s) == RStrip(LStrip(s))

\* str.split(','): the pieces between every two commas; never empty.
RECURSIVE Split(_)
Split(s) ==
    IF \A i \in 1..Len(s) : s[i] /= ","
    THEN <<s>>
    ELSE LET k == CHOOSE i \in 1..Len(s) :
                      s[i] = "," /\ \A j \in 1..(i - 1) : s[j] /= ","
         IN <<SubSeq(s, 1, k - 1)>> \o Split(SubSeq(s, k + 1, Len(s)))

\* The split made on the first comma only, as text.split(',', 1) makes it.
SexAgeFirstComma(p) ==
    IF p = None THEN <<<<>>, <<>>>>
    ELSE LET text == Strip(p)
             pieces == Split(text)
         IN <<Strip(pieces[1]),
              IF Len(pieces) > 1
              THEN Strip(SubSeq(text, Len(pieces[1]) + 2, Len(text)))
              ELSE <<>>>>

\* extract_animal_data, lines 114-122: <<sex, age>> from the card's <p>
\* (None when the card has no <p>).
SexAge(p) ==
    IF p = None THEN <<<<>>, <<>>>>
    ELSE LET pieces == Split(Strip(p))
             parts == [i \in 1..Len(pieces) |-> Strip(pieces[i])]
         IN <<parts[1], IF Len(parts) > 1 THEN parts[2] ELSE <<>>>>

IsDigit(c) == c \in {"1", "2"}

\* The longest run of digits at the head of s: the group (\d+).
RECURSIVE DigitRun(_)
DigitRun(s) ==
    IF s /= <<>> /\ IsDigit(Head(s)) THEN <<Head(s)>> \o DigitRun(Tail(s)) ELSE <<>>

\* re.search(r'setPopupData\((\d+)', s).group(1), or None without a match.
\* The token "S" stands for the literal setPopupData.
RECURSIVE RegexSearch(_)
RegexSearch(s) ==
    IF Len(s) < 3 THEN None
    ELSE IF s[1] = "S" /\ s[2] = "(" /\ IsDigit(s[3])
    THEN DigitRun(SubSeq(s, 3, Len(s)))
    ELSE RegexSearch(Tail(s))

\* extract_animal_data, lines 98-104: the button is selected when its onclick
\* holds setPopupData; pet_id is the regex's group or None.
PetId(onclick) ==
    IF onclick = None \/ (\A i \in 1..Len(onclick) : onclick[i] /= "S")
    THEN None
    ELSE RegexSearch(onclick)

\* `x['attr'] if x and x.get('attr') else None`: lines 108 and 126.
AttrOrNone(v) == IF Truthy(v) THEN v ELSE None

----------------------------------------------------------------------------
(* Listing Crawler: what the site can serve                                *)

URLs == 1..MaxPages

\* An a.next anchor: its class disabled, and its href (0: none or empty).
Anchors == [disabled : BOOLEAN, href : {0} \cup URLs]

\* The a.next anchors of a page, in document order.
NextSels == {<<>>} \cup {<<a>> : a \in Anchors}
                   \cup {<<a, b>> : a \in Anchors, b \in Anchors}

\* The onclick of the card's button (None: the card has no button).
Onclicks == {None, <<"x">>, <<"S", "(", "x", "1">>, <<"x", "S", "(", "1", "2", "x">>}

\* The href of a.animalCard__link (None: no such tag or no href).
Hrefs == {None, <<>>, <<"k">>, <<"l">>}

\* The text of the card's h5 (None: no h5).
Names == {None, <<>>, <<"n">>}

\* The text of the card's <p> (None: no <p>).
PTexts == {None, <<"a">>, <<"a", ",", " ", "b">>, <<",", " ", "b">>, <<"a", ",">>,
           <<" ", "b", ",", "a", ",", "c">>}

\* The data-src of img.animalCard__photo (None: no such tag or attribute).
DataSrcs == {None, <<>>, <<"u">>}

NoCard == [pet_id |-> None, link |-> None, name |-> None,
           sex |-> <<>>, age |-> <<>>, photo_url |-> None]

NoRaw == [onclick |-> None, p |-> None]

----------------------------------------------------------------------------
(* Listing Crawler: extract_animal_data and main                           *)

CrawlInit ==
    /\ current_url = 1
    /\ animal_data = <<>>
    /\ fetched = 0
    /\ next_sel = <<>>
    /\ cards_done = 0
    /\ card = NoCard
    /\ raw = NoRaw
    /\ crawl_pc = "loop"
    /\ error = "none"
    /\ data = <<>>
    /\ csv_out = <<>>
    /\ wrote = "none"

\* `link in animal_data`: the keys of the dict.
Links == {animal_data[i].key : i \in 1..Len(animal_data)}

\* animal_data.values(), in insertion order.
Values == [i \in 1..Len(animal_data) |-> animal_data[i].value]

\* select_one('a.next:not(.disabled)') taking the first a.next, disabled or not.
NextUrlAnyAnchor(anchors) ==
    IF anchors = <<>> THEN 0 ELSE anchors[1].href

\* Lines 150-151: the href of the first a.next that is not disabled, or None.
NextUrl(anchors) ==
    LET enabled == SelectSeq(anchors, LAMBDA a : ~a.disabled)
    IN IF enabled = <<>> THEN 0 ELSE enabled[1].href

\* Lines 88-94: the loop test, session.get, raise_for_status, BeautifulSoup.
Fetch ==
    /\ crawl_pc = "loop"
    /\ current_url /= 0
    /\ fetched <= MaxPages
    /\ fetched' = fetched + 1
    /\ \E outcome \in {"ok", "request_error", "parse_error"} :
         IF outcome = "ok"
         THEN /\ crawl_pc' = "cards"
              /\ UNCHANGED error
         ELSE /\ crawl_pc' = "close"
              /\ error' = outcome
    /\ cards_done' = 0
    /\ next_sel' = <<>>
    /\ UNCHANGED <<current_url, animal_data, card, raw, data, csv_out, wrote>>
    /\ UNCHANGED <<fetchVars, splitVars>>

\* Line 88: the loop ends on current_url = None.
LoopExit ==
    /\ crawl_pc = "loop"
    /\ current_url = 0
    /\ crawl_pc' = "close"
    /\ UNCHANGED <<current_url, animal_data, fetched, next_sel, cards_done, card,
                   raw, error, data, csv_out, wrote>>
    /\ UNCHANGED <<fetchVars, splitVars>>

\* Lines 96-104: the next card of the page, and its pet_id.
ExtractPetId ==
    /\ crawl_pc = "cards"
    /\ cards_done < MaxCards
    /\ \E onclick \in Onclicks :
         /\ card' = [NoCard EXCEPT !.pet_id = PetId(onclick)]
         /\ raw' = [NoRaw EXCEPT !.onclick = onclick]
    /\ crawl_pc' = "link"
    /\ UNCHANGED <<current_url, animal_data, fetched, next_sel, cards_done,
                   error, data, csv_out, wrote>>
    /\ UNCHANGED <<fetchVars, splitVars>>

\* Lines 107-108.
ExtractLink ==
    /\ crawl_pc = "link"
    /\ \E href \in Hrefs : card' = [card EXCEPT !.link = AttrOrNone(href)]
    /\ crawl_pc' = "name"
    /\ UNCHANGED <<current_url, animal_data, fetched, next_sel, cards_done,
                   raw, error, data, csv_out, wrote>>
    /\ UNCHANGED <<fetchVars, splitVars>>

\* Lines 111-112.
ExtractName ==
    /\ crawl_pc = "name"
    /\ \E h5 \in Names : card' = [card EXCEPT !.name = h5]
    /\ crawl_pc' = "sex_age"
    /\ UNCHANGED <<current_url, animal_data, fetched, next_sel, cards_done,
                   raw, error, data, csv_out, wrote>>
    /\ UNCHANGED <<fetchVars, splitVars>>

\* Lines 115-122.
ExtractSexAge ==
    /\ crawl_pc = "sex_age"
    /\ \E p \in PTexts :
         /\ card' = [card EXCEPT !.sex = SexAge(p)[1], !.age = SexAge(p)[2]]
         /\ raw' = [raw EXCEPT !.p = p]
    /\ crawl_pc' = "photo"
    /\ UNCHANGED <<current_url, animal_data, fetched, next_sel, cards_done,
                   error, data, csv_out, wrote>>
    /\ UNCHANGED <<fetchVars, splitVars>>

\* Lines 125-126.
ExtractPhoto ==
    /\ crawl_pc = "photo"
    /\ \E src \in DataSrcs : card' = [card EXCEPT !.photo_url = AttrOrNone(src)]
    /\ crawl_pc' = "check"
    /\ UNCHANGED <<current_url, animal_data, fetched, next_sel, cards_done,
                   raw, error, data, csv_out, wrote>>
    /\ UNCHANGED <<fetchVars, splitVars>>

\* all([pet_id, link, name, sex, age, photo_url])
Complete(c) ==
    /\ Truthy(c.pet_id) /\ Truthy(c.link) /\ Truthy(c.name)
    /\ Truthy(c.sex) /\ Truthy(c.age) /\ Truthy(c.photo_url)

\* Lines 129-147 with the membership test dropped: animal_data[link] = {...}
\* on a key that is present replaces its value in place.
StoreOverwriting(c) ==
    IF ~Complete(c) THEN animal_data
    ELSE IF c.link \in Links
    THEN [i \in 1..Len(animal_data) |->
             IF animal_data[i].key = c.link
             THEN [key |-> c.link, value |-> c] ELSE animal_data[i]]
    ELSE Append(animal_data, [key |-> c.link, value |-> c])

\* Lines 129-147 with the check of the required fields dropped.
StoreUnchecked(c) ==
    IF c.link \in Links THEN animal_data
    ELSE Append(animal_data, [key |-> c.link, value |-> c])

\* Lines 129-147: the dict after the card with locals c.
Store(c) ==
    IF ~Complete(c) THEN animal_data
    ELSE IF c.link \in Links THEN animal_data
    ELSE Append(animal_data, [key |-> c.link, value |-> c])

\* Lines 128-147: skip, deduplicate or insert; on to the next card.
InsertOrSkip ==
    /\ crawl_pc = "check"
    /\ animal_data' = Store(card)
    /\ cards_done' = cards_done + 1
    /\ card' = NoCard
    /\ raw' = NoRaw
    /\ crawl_pc' = "cards"
    /\ UNCHANGED <<current_url, fetched, next_sel, error, data, csv_out, wrote>>
    /\ UNCHANGED <<fetchVars, splitVars>>

\* Line 96: the cards of the page are exhausted.
EndOfCards ==
    /\ crawl_pc = "cards"
    /\ crawl_pc' = "next"
    /\ UNCHANGED <<current_url, animal_data, fetched, next_sel, cards_done, card,
                   raw, error, data, csv_out, wrote>>
    /\ UNCHANGED <<fetchVars, splitVars>>

\* Lines 149-152: the cursor moves to the page's "Next" link. The last page
\* of a chain of MaxPages pages has no enabled a.next.
NextPage ==
    /\ crawl_pc = "next"
    /\ \E anchors \in NextSels :
         /\ fetched >= MaxPages =>
              \A i \in 1..Len(anchors) : anchors[i].disabled
         /\ next_sel' = anchors
         /\ current_url' = NextUrl(anchors)
    /\ crawl_pc' = "loop"
    /\ UNCHANGED <<animal_data, fetched, cards_done, card, raw, error, data,
                   csv_out, wrote>>
    /\ UNCHANGED <<fetchVars, splitVars>>

\* Lines 157-159: an exception anywhere in the try body after the page was
\* fetched and parsed.
RaiseInLoop ==
    /\ crawl_pc \in {"cards", "link", "name", "sex_age", "photo", "check", "next"}
    /\ error' = "parse_error"
    /\ crawl_pc' = "close"
    /\ card' = NoCard
    /\ raw' = NoRaw
    /\ UNCHANGED <<current_url, animal_data, fetched, next_sel, cards_done,
                   data, csv_out, wrote>>
    /\ UNCHANGED <<fetchVars, splitVars>>

\* Lines 161-162 with the values of an empty dict returned on an error.
ReturnedDroppingOnError == IF error = "none" THEN Values ELSE <<>>

\* Line 162: list(animal_data.values()).
Returned == Values

\* Lines 161-162 and 186.
Return ==
    /\ crawl_pc = "close"
    /\ data' = Returned
    /\ crawl_pc' = "main"
    /\ UNCHANGED <<current_url, animal_data, fetched, next_sel, cards_done, card,
                   raw, error, csv_out, wrote>>
    /\ UNCHANGED <<fetchVars, splitVars>>

\* Lines 188-190: `if not data: return`.
MainCheck ==
    /\ crawl_pc = "main"
    /\ crawl_pc' = IF data = <<>> THEN "done" ELSE "write"
    /\ UNCHANGED <<current_url, animal_data, fetched, next_sel, cards_done, card,
                   raw, error, data, csv_out, wrote>>
    /\ UNCHANGED <<fetchVars, splitVars>>

\* Lines 197-213: the rows are written, or the IOError is logged.
WriteCsv ==
    /\ crawl_pc = "write"
    /\ \E ok \in BOOLEAN :
         /\ wrote' = IF ok THEN "ok" ELSE "ioerror"
         /\ csv_out' = IF ok THEN data ELSE <<>>
    /\ crawl_pc' = "done"
    /\ UNCHANGED <<current_url, animal_data, fetched, next_sel, cards_done, card,
                   raw, error, data>>
    /\ UNCHANGED <<fetchVars, splitVars>>

----------------------------------------------------------------------------
(* The "sex, age" split on its own, over every short text                  *)

Chars == {"a", ",", " "}

Texts == UNION {[1..n -> Chars] : n \in 0..MaxText}

SplitInit ==
    /\ p_text \in Texts
    /\ parsed = <<>>

\* Lines 117-122 on a <p> with text p_text.
SplitText ==
    /\ parsed = <<>>
    /\ parsed' = SexAge(p_text)
    /\ UNCHANGED p_text
    /\ UNCHANGED <<fetchVars, crawlVars>>

----------------------------------------------------------------------------
(* Specifications                                                          *)

FetchIdle ==
    /\ concurrency = 0 /\ sem_value = 0 /\ holders = {} /\ rows_read = 0
    /\ counters = [links |-> 0, success |-> 0, fail |-> 0, missing_info |-> 0]
    /\ results = <<>> /\ tasks = <<>> /\ main_pc = "read"
    /\ json_out = [status |-> "unwritten", rows |-> <<>>]

SplitIdle == p_text = <<>> /\ parsed = <<>>

FetchNext ==
    \/ ReadRow
    \/ EndOfCsv
    \/ \E t \in Tasks : Acquire(t)
    \/ \E t \in Tasks : Response(t)
    \/ \E t \in Tasks : Body(t)
    \/ \E t \in Tasks : Release(t)
    \/ GatherDone
    \/ WriteJson

CrawlNext ==
    \/ Fetch
    \/ LoopExit
    \/ ExtractPetId
    \/ ExtractLink
    \/ ExtractName
    \/ ExtractSexAge
    \/ ExtractPhoto
    \/ InsertOrSkip
    \/ EndOfCards
    \/ NextPage
    \/ RaiseInLoop
    \/ Return
    \/ MainCheck
    \/ WriteCsv

SplitNext == SplitText

\* The Profile Fetcher, any scheduling of the tasks.
FetchSpecInit == FetchInit /\ CrawlInit /\ SplitIdle

FetchSpec ==
    /\ FetchSpecInit
    /\ [][FetchNext]_vars

\* The Profile Fetcher when the event loop runs every task that can run, every
\* issued request returns or raises, and main_async is not starved.
FetchFairSpec ==
    /\ FetchSpec
    /\ WF_vars(EndOfCsv)
    /\ WF_vars(GatherDone)
    /\ WF_vars(WriteJson)
    /\ \A t \in 1..MaxRows :
         /\ WF_vars(t \in Tasks /\ Acquire(t))
         /\ WF_vars(t \in Tasks /\ Response(t))
         /\ WF_vars(t \in Tasks /\ Body(t))
         /\ WF_vars(t \in Tasks /\ Release(t))

\* The Listing Crawler: one sequential run.
CrawlSpecInit == FetchIdle /\ CrawlInit /\ SplitIdle

CrawlSpec ==
    /\ CrawlSpecInit
    /\ [][CrawlNext]_vars

\* The Listing Crawler when the process keeps running and every request
\* returns or raises.
CrawlFairSpec ==
    /\ CrawlSpec
    /\ WF_vars(CrawlNext)

\* The split of one <p> text.
SplitSpecInit == FetchIdle /\ CrawlInit /\ SplitInit

SplitSpec ==
    /\ SplitSpecInit
    /\ [][SplitNext]_vars

----------------------------------------------------------------------------
(* Profile Fetcher: the properties                                         *)

\* The tasks whose GET is issued and whose response or body is awaited.
InFlight == {t \in Tasks : tasks[t].pc \in {"awaiting_response", "awaiting_body"}}

\* C1: in every reachable state the number of tasks that have issued their
\* GET and still await the response or its body is at most the limit.
C1_AtMostNInFlight == Cardinality(InFlight) <= concurrency

\* More tasks than slots, every slot taken by a request in flight, and a
\* task kept waiting at the gate.
C1_Witness ==
    /\ concurrency >= 1
    /\ Len(tasks) > concurrency
    /\ Cardinality(InFlight) = concurrency
    /\ \E t \in Tasks : tasks[t].pc = "gate"

\* The counter the claim assigns to what task t was served.
ExpectedCounter(t) ==
    IF tasks[t].status /= 200 \/ tasks[t].raised THEN "fail"
    ELSE IF "adoptionProfilePage" \in tasks[t].html THEN "success"
    ELSE "missing_info"

\* The results task t appended.
Appended(t) == {i \in 1..Len(results) : results[i].link = tasks[t].link}

\* The tasks that incremented counter name.
Incrementers(name) ==
    {t \in Tasks : \E i \in 1..Len(tasks[t].incs) : tasks[t].incs[i] = name}

\* C2: every task increments exactly one of success, missing_info, fail, by
\* exactly 1, chosen by its outcome (200 with the container: success and one
\* result; 200 without: missing_info; non-200 or an exception: fail), and
\* appends a result only with success.
C2_OneCounterPerTask ==
    /\ \A t \in Tasks :
         IF tasks[t].pc \in {"exit", "done"}
         THEN /\ tasks[t].incs = <<ExpectedCounter(t)>>
              /\ Cardinality(Appended(t)) =
                   IF ExpectedCounter(t) = "success" THEN 1 ELSE 0
         ELSE /\ tasks[t].incs = <<>>
              /\ Appended(t) = {}
    /\ \A name \in {"success", "missing_info", "fail"} :
         counters[name] = Cardinality(Incrementers(name))

\* Three finished tasks: a profile page, a page without the container, a 404.
C2_Witness ==
    \E t, u, v \in Tasks :
        /\ tasks[t].pc = "done" /\ tasks[t].incs = <<"success">>
        /\ tasks[u].pc = "done" /\ tasks[u].incs = <<"missing_info">>
        /\ tasks[v].pc = "done" /\ tasks[v].incs = <<"fail">> /\ tasks[v].status = 404

\* Task t has reached its final outcome.
Final(t) == tasks[t].pc = "done" /\ Len(tasks[t].incs) = 1

\* C3: a task's outcome, once reached, is never changed by a later step of
\* any task; main_async is at the JSON-writing step only when every spawned
\* task has reached a final outcome; and when every request returns or
\* raises and the limit is at least 1, the run reaches the writing step.
C3_AllTasksFinishBeforeWrite ==
    /\ [][\A t \in Tasks :
            tasks[t].incs /= <<>> =>
              /\ tasks'[t].incs = tasks[t].incs
              /\ tasks'[t].status = tasks[t].status]_vars
    /\ [](main_pc \in {"write", "done"} => \A t \in Tasks : Final(t))
    /\ (concurrency >= 1 => <>(main_pc = "write"))

\* The writing step reached with more tasks than slots, one of them failed
\* and another one successful.
C3_Witness ==
    /\ main_pc = "write"
    /\ concurrency >= 1
    /\ Len(tasks) > concurrency
    /\ \E t, u \in Tasks : tasks[t].incs = <<"fail">> /\ tasks[u].incs = <<"success">>

\* C9 as claimed: a task that has extracted and updated its counter has
\* already released its gate slot.
C9_UpdateAfterRelease == \A t \in Tasks : tasks[t].incs /= <<>> => t \notin holders

\* C9 as the code has it: a task holds its gate slot from the admission
\* through the GET, the body, the extraction, the append and the counter
\* update, and gives the slot back only after the counter update.
C9_SlotHeldThroughUpdate ==
    /\ [][\A t \in Tasks :
            /\ tasks'[t].incs /= tasks[t].incs => t \in holders /\ t \in holders'
            /\ (t \in holders /\ t \notin holders') => tasks[t].incs /= <<>>]_vars
    /\ [](\A t \in Tasks :
            t \in holders <=>
              tasks[t].pc \in {"awaiting_response", "awaiting_body", "exit"})
    /\ [](sem_value + Cardinality(holders) = concurrency)

\* A task has updated its counter and still holds the only free slot, while
\* another task waits at the gate.
C9_Witness ==
    \E t, u \in Tasks :
        /\ tasks[t].incs = <<"success">> /\ t \in holders
        /\ sem_value = 0
        /\ tasks[u].pc = "gate"

\* C10: success + fail + missing_info never exceeds links, the results list
\* is as long as success counts, and at the writing step the three add up
\* to links.
C10_CountersAddUp ==
    /\ counters.links = Len(tasks)
    /\ counters.success + counters.fail + counters.missing_info <= counters.links
    /\ Len(results) = counters.success
    /\ main_pc \in {"write", "done"} =>
         counters.success + counters.fail + counters.missing_info = counters.links

\* The writing step after three tasks, two of them successful and one not.
C10_Witness ==
    /\ main_pc = "write"
    /\ counters.links >= 3
    /\ counters.success >= 2
    /\ counters.fail + counters.missing_info >= 1

----------------------------------------------------------------------------
(* Listing Crawler: the properties                                         *)

\* The step that settles a card: InsertOrSkip.
CardSettled == crawl_pc = "check" /\ crawl_pc' = "cards"

\* C4: the map holds at most one record per link; a record, once in the
\* map, is never replaced, changed or removed; the first complete card with
\* a link puts its record in the map, and nothing else changes the map.
C4_FirstCardWins ==
    /\ [](\A i, j \in 1..Len(animal_data) :
            animal_data[i].value.link = animal_data[j].value.link => i = j)
    /\ [][/\ Len(animal_data') >= Len(animal_data)
          /\ \A i \in 1..Len(animal_data) : animal_data'[i] = animal_data[i]]_vars
    /\ [][(CardSettled /\ Complete(card) /\ card.link \notin Links) =>
            (/\ Len(animal_data') = Len(animal_data) + 1
             /\ animal_data'[Len(animal_data')].value = card)]_vars
    /\ [][animal_data' /= animal_data =>
            (CardSettled /\ Complete(card) /\ card.link \notin Links)]_vars

\* The first card of a later page is complete and carries a link that the
\* map holds with other field values.
C4_Witness ==
    /\ crawl_pc = "check"
    /\ fetched >= 2
    /\ cards_done = 0
    /\ Complete(card)
    /\ \E i \in 1..Len(animal_data) :
         animal_data[i].key = card.link /\ animal_data[i].value /= card

\* C5 as claimed: after an exception the run returns the records collected
\* and ends having taken the CSV-writing step with them.
C5_WritesWhatWasCollected ==
    error /= "none" =>
      /\ crawl_pc \in {"main", "write", "done"} => data = Values
      /\ crawl_pc = "done" => wrote /= "none"

\* C5 as the code has it: after an exception no further page is fetched and
\* the map is left as it was; extract_animal_data returns exactly its
\* records; main takes the CSV-writing step with them when there is at least
\* one, and ends without writing when there is none.
C5_StopsAndKeepsRecords ==
    /\ [][error /= "none" =>
            /\ fetched' = fetched
            /\ animal_data' = animal_data
            /\ error' = error]_vars
    /\ [][(error = "none" /\ error' /= "none") => animal_data' = animal_data]_vars
    /\ [](error /= "none" /\ crawl_pc \in {"main", "write", "done"} => data = Values)
    /\ [][(error /= "none" /\ crawl_pc = "main") =>
            crawl_pc' = IF data = <<>> THEN "done" ELSE "write"]_vars
    /\ [](error /= "none" /\ crawl_pc = "done" =>
            IF data = <<>> THEN wrote = "none"
            ELSE /\ wrote \in {"ok", "ioerror"}
                 /\ wrote = "ok" => csv_out = data)

\* An exception on a later page, and the records of the earlier pages
\* written to the CSV.
C5_Witness ==
    /\ error /= "none"
    /\ crawl_pc = "done"
    /\ fetched >= 2
    /\ wrote = "ok"
    /\ Len(csv_out) >= 1

\* The page's next selector matches nothing, or only disabled links.
NoEnabledNext(anchors) == \A i \in 1..Len(anchors) : anchors[i].disabled

\* The page declares an enabled next link to u.
DeclaresNext(anchors, u) ==
    \E i \in 1..Len(anchors) :
        /\ ~anchors[i].disabled
        /\ anchors[i].href = u
        /\ \A j \in 1..(i - 1) : anchors[j].disabled

\* C6: the cursor moves only at the end of a page's visit, to the page's
\* enabled next link, and to None when the selector matches nothing or only
\* a disabled link; every GET is of the cursor and is followed by that
\* page's visit; the loop ends without error only on a page with no next
\* link, and then returns all the records; the crawl of a finite chain ends.
C6_FollowsChainAndStops ==
    /\ [][crawl_pc = "next" /\ crawl_pc' = "loop" =>
            /\ NoEnabledNext(next_sel') => current_url' = 0
            /\ \A u \in URLs : DeclaresNext(next_sel', u) => current_url' = u]_vars
    /\ [][current_url' /= current_url => crawl_pc = "next" /\ crawl_pc' = "loop"]_vars
    /\ [][fetched' /= fetched =>
            /\ fetched' = fetched + 1
            /\ current_url /= 0
            /\ crawl_pc = "loop" /\ crawl_pc' /= "loop"]_vars
    /\ [](crawl_pc = "close" /\ error = "none" =>
            current_url = 0 /\ ~\E u \in URLs : DeclaresNext(next_sel, u))
    /\ [](crawl_pc \in {"main", "write", "done"} /\ error = "none" => data = Values)
    /\ <>(crawl_pc = "done")

\* A chain of at least two pages came to its end on a page whose only next
\* link is disabled, and the records were returned without error.
C6_Witness ==
    /\ crawl_pc = "main"
    /\ error = "none"
    /\ fetched >= 2
    /\ next_sel /= <<>> /\ NoEnabledNext(next_sel) /\ next_sel[1].href /= 0
    /\ Len(data) >= 2

\* The six fields of a record.
Fields == {"pet_id", "link", "name", "sex", "age", "photo_url"}

Absent(v) == v = None \/ v = <<>>

\* The <p> text holds no comma.
NoComma(p) == p = None \/ \A i \in 1..Len(p) : p[i] /= ","

\* The onclick attribute holds no digit run right after setPopupData(.
NoDigitRun(onclick) ==
    \/ onclick = None
    \/ ~\E i \in 1..(Len(onclick) - 2) :
          onclick[i] = "S" /\ onclick[i + 1] = "(" /\ IsDigit(onclick[i + 2])

\* C7: every record of the map has its six fields non-empty and is stored
\* under its own link; a card with a field absent or empty, a <p> text
\* without a comma or an onclick without a digit run after the marker is
\* never inserted.
C7_RecordsComplete ==
    /\ [](\A i \in 1..Len(animal_data) :
            /\ \A f \in Fields : ~Absent(animal_data[i].value[f])
            /\ animal_data[i].key = animal_data[i].value.link)
    /\ [][(/\ CardSettled
           /\ \/ \E f \in Fields : Absent(card[f])
              \/ NoComma(raw.p)
              \/ NoDigitRun(raw.onclick)) => animal_data' = animal_data]_vars

\* A card about to be settled whose <p> text has no comma and whose other
\* five fields are present, with a record already in the map.
C7_Witness ==
    /\ crawl_pc = "check"
    /\ raw.p /= None /\ NoComma(raw.p)
    /\ \A f \in Fields \ {"age"} : ~Absent(card[f])
    /\ card.link \notin Links
    /\ animal_data /= <<>>

----------------------------------------------------------------------------
(* The "sex, age" split: the properties                                    *)

Commas(s) == {i \in 1..Len(s) : s[i] = ","}

Min(S) == CHOOSE i \in S : \A j \in S : i <= j

\* C8 as claimed: sex is the trimmed text before the first comma and age the
\* trimmed text after it, all of it; without a comma sex is the text and age
\* is empty.
C8_SplitOnFirstComma ==
    parsed /= <<>> =>
      IF Commas(p_text) = {}
      THEN parsed = <<Strip(p_text), <<>>>>
      ELSE LET k == Min(Commas(p_text))
           IN parsed = <<Strip(SubSeq(p_text, 1, k - 1)),
                         Strip(SubSeq(p_text, k + 1, Len(p_text)))>>

\* C8 as the code has it: sex is the trimmed text before the first comma and
\* age the trimmed text between the first comma and the second (or the end
\* of the text); without a comma sex is the text and age is empty.
C8_SplitOnEveryComma ==
    parsed /= <<>> =>
      IF Commas(p_text) = {}
      THEN parsed = <<Strip(p_text), <<>>>>
      ELSE LET k == Min(Commas(p_text))
               later == Commas(p_text) \ {k}
               stop == IF later = {} THEN Len(p_text) + 1 ELSE Min(later)
           IN parsed = <<Strip(SubSeq(p_text, 1, k - 1)),
                         Strip(SubSeq(p_text, k + 1, stop - 1))>>

\* A text with two commas was split, and its age is not empty.
C8_Witness ==
    /\ parsed /= <<>>
    /\ Cardinality(Commas(p_text)) >= 2
    /\ parsed[2] /= <<>>

====
